---- MODULE Spec2Model ----
(***************************************************************************)
(* sgx_tstd/src/time.rs: Instant, SystemTime, SystemTimeError.             *)
(*                                                                         *)
(* Three specifications share the module:                                  *)
(*   Spec      threads calling Instant::now() / Instant::elapsed(), one    *)
(*             action per statement of Instant::_now;                      *)
(*   SpecTime  the value operations (duration_since and its variants,      *)
(*             checked_add / checked_sub, SystemTime::elapsed) applied to  *)
(*             inputs drawn from bounded sets;                             *)
(*   SpecGate  one thread doing both, with feature "untrusted_time" either *)
(*             on or off.                                                  *)
(***************************************************************************)
EXTENDS Integers, Sequences, FiniteSets, TLC

(***************************************************************************)
(* Bounds of the model.                                                    *)
(***************************************************************************)
\* greatest tv_sec of the timestamps SpecTime draws
MaxSec == 5
\* greatest secs of the durations SpecTime draws
MaxDurSec == 2
\* representable tv_sec range of the adapter's reading: -RangeMax..RangeMax
RangeMax == 6

(***************************************************************************)
(* Values: sys::time::Timespec (the adapter's reading), core Duration,     *)
(* Option and Result.                                                      *)
(***************************************************************************)
NSEC_PER_SEC == 1000000000

Ts(s, n) == [tv_sec |-> s, tv_nsec |-> n]

Dur(s, n) == [secs |-> s, nanos |-> n]

None == [some |-> FALSE]

Some(x) == [some |-> TRUE, v |-> x]

Ok(x) == [ok |-> TRUE, v |-> x]

Err(x) == [ok |-> FALSE, v |-> x]

Panic(m) == [panic |-> TRUE, msg |-> m]

Val(x) == [panic |-> FALSE, v |-> x]

\* Duration::new(0, 0)
DurZero == Dur(0, 0)

\* time::Instant::zero(), the watermark's sentinel
zero == Ts(0, 0)

\* time::UNIX_EPOCH
UNIX_EPOCH == Ts(0, 0)

(***************************************************************************)
(* The adapter, crate::sys::time.                                          *)
(***************************************************************************)
\* derived Ord of the reading: seconds first, then nanoseconds
TsLe(a, b) ==
    \/ a.tv_sec < b.tv_sec
    \/ a.tv_sec = b.tv_sec /\ a.tv_nsec <= b.tv_nsec

TsLt(a, b) == TsLe(a, b) /\ a # b

\* the magnitude a - b for b <= a, with the borrow from the seconds
TsDiff(a, b) ==
    IF a.tv_nsec >= b.tv_nsec
    THEN Dur(a.tv_sec - b.tv_sec, a.tv_nsec - b.tv_nsec)
    ELSE Dur(a.tv_sec - 1 - b.tv_sec, a.tv_nsec + NSEC_PER_SEC - b.tv_nsec)

\* pairwise wall-clock difference: Ok(a - b), or Err(b - a) when a is before b
sub_time(a, b) ==
    IF TsLe(b, a) THEN Ok(TsDiff(a, b)) ELSE Err(TsDiff(b, a))

\* pairwise monotonic difference: present iff b <= a
checked_sub_instant(a, b) ==
    IF TsLe(b, a) THEN Some(TsDiff(a, b)) ELSE None

\* t + d, absent when tv_sec leaves the representable range
checked_add_duration(t, d) ==
    LET n == t.tv_nsec + d.nanos
        c == IF n >= NSEC_PER_SEC THEN 1 ELSE 0
        s == t.tv_sec + d.secs + c
    IN  IF s > RangeMax THEN None ELSE Some(Ts(s, n - c * NSEC_PER_SEC))

\* t - d, absent when tv_sec leaves the representable range
checked_sub_duration(t, d) ==
    LET n == t.tv_nsec - d.nanos
        c == IF n < 0 THEN 1 ELSE 0
        s == t.tv_sec - d.secs - c
    IN  IF s < -RangeMax THEN None ELSE Some(Ts(s, n + c * NSEC_PER_SEC))

(***************************************************************************)
(* core::cmp and Option/Result helpers used by time.rs.                    *)
(***************************************************************************)
\* cmp::max(v1, v2): v2 unless v1 is greater
cmp_max(v1, v2) == IF TsLe(v1, v2) THEN v2 ELSE v1

\* Option::expect
expect(o, m) == IF o.some THEN Val(o.v) ELSE Panic(m)

\* Option::unwrap_or
unwrap_or(o, d) == IF o.some THEN o.v ELSE d

\* Result::map_err(SystemTimeError): the Err payload wrapped, Ok untouched
map_err_SystemTimeError(r) ==
    IF r.ok THEN r ELSE Err([SystemTimeError |-> r.v])

(***************************************************************************)
(* Instant: value operations.                                              *)
(***************************************************************************)
\* self and earlier exchanged
Instant_duration_since_swapped(self, earlier) ==
    expect(checked_sub_instant(earlier, self), "supplied instant is later than self")

\* time.rs:149-151
Instant_duration_since(self, earlier) ==
    expect(checked_sub_instant(self, earlier), "supplied instant is later than self")

\* time.rs:156-158
Instant_checked_duration_since(self, earlier) ==
    checked_sub_instant(self, earlier)

\* the distance between the two in place of zero
Instant_saturating_duration_since_abs(self, earlier) ==
    unwrap_or(checked_sub_instant(self, earlier), TsDiff(earlier, self))

\* time.rs:163-165
Instant_saturating_duration_since(self, earlier) ==
    unwrap_or(Instant_checked_duration_since(self, earlier), DurZero)

\* time.rs:183-185, 190-192
Instant_checked_add(self, duration) == checked_add_duration(self, duration)

Instant_checked_sub(self, duration) == checked_sub_duration(self, duration)

\* impl Add<Duration> for Instant
Instant_add(self, other) ==
    expect(Instant_checked_add(self, other), "overflow when adding duration to instant")

\* impl Sub<Duration> for Instant
Instant_sub(self, other) ==
    expect(Instant_checked_sub(self, other),
           "overflow when subtracting duration from instant")

\* impl Sub<Instant> for Instant
Instant_sub_instant(self, other) == Instant_duration_since(self, other)

(***************************************************************************)
(* SystemTime: value operations.                                           *)
(***************************************************************************)
\* self and earlier exchanged
SystemTime_duration_since_swapped(self, earlier) ==
    map_err_SystemTimeError(sub_time(earlier, self))

\* time.rs:290-292
SystemTime_duration_since(self, earlier) ==
    map_err_SystemTimeError(sub_time(self, earlier))

\* time.rs:321-323, 328-330
SystemTime_checked_add(self, duration) == checked_add_duration(self, duration)

SystemTime_checked_sub(self, duration) == checked_sub_duration(self, duration)

\* impl Add<Duration> for SystemTime
SystemTime_add(self, dur) ==
    expect(SystemTime_checked_add(self, dur), "overflow when adding duration to instant")

\* impl Sub<Duration> for SystemTime
SystemTime_sub(self, dur) ==
    expect(SystemTime_checked_sub(self, dur),
           "overflow when subtracting duration from instant")

\* SystemTimeError::duration
SystemTimeError_duration(e) == e.SystemTimeError

\* SystemTime::_now: the adapter's wall reading w, wrapped and not corrected
SystemTime_now(w) == w

\* SystemTime::elapsed with the adapter's wall reading w
SystemTime_elapsed(self, w) ==
    SystemTime_duration_since(SystemTime_now(w), self)

(***************************************************************************)
(* State.                                                                  *)
(***************************************************************************)
VARIABLES
    untrusted_time,      \* cfg(feature = "untrusted_time")
    actually_monotonic,  \* time::Instant::actually_monotonic()
    LAST_NOW,            \* static mut LAST_NOW, the watermark
    LOCK,                \* static LOCK: "unlocked" or the thread holding it
    th,                  \* per thread: position in now()/_now and its locals
    clockReads,          \* the adapter clocks read so far
    maxRet,              \* greatest Instant a completed now() returned
    maxRetOk,            \* the same over the calls that acquired the lock
    ex,                  \* stores so far that followed ExampleIn, -1 once off it
    exGood,              \* those stores produced ExampleOut
    rawMax,              \* greatest raw reading stored through the protocol
    recv,                \* value operations: self
    arg,                 \* value operations: earlier
    delta,               \* value operations: the Duration operand
    wall,                \* the wall-clock reading the last operation took
    op,                  \* the value operation applied last
    res                  \* what it returned

nowVars == <<actually_monotonic, LAST_NOW, LOCK, th, maxRet, maxRetOk, ex, exGood,
             rawMax>>

timeVars == <<recv, arg, delta, wall, op, res>>

vars == <<untrusted_time, clockReads, nowVars, timeVars>>

Threads == {"t1", "t2"}

\* raw readings time::Instant::now() may supply, in any order
Readings == {Ts(4, 0), Ts(9, 0), Ts(10, 0), Ts(20, 0)}

\* the correction example: raw readings and the Instants returned for them
ExampleIn == <<Ts(10, 0), Ts(4, 0), Ts(4, 0), Ts(9, 0), Ts(20, 0)>>

ExampleOut == <<Ts(10, 0), Ts(10, 0), Ts(10, 0), Ts(10, 0), Ts(20, 0)>>

\* a thread outside any call
Idle ==
    [pc |-> "idle", kind |-> "none", self |-> None, floorOk |-> None,
     floorAll |-> None, os_now |-> None, w |-> None, now |-> None, r |-> "none"]

\* the greater of an optional Instant and an Instant
OptMax(o, x) == IF o.some THEN Some(cmp_max(o.v, x)) ELSE Some(x)

(***************************************************************************)
(* Instant::now() and Instant::elapsed(), statement by statement.          *)
(***************************************************************************)
\* what no statement of _now changes
fixed == <<untrusted_time, timeVars, actually_monotonic>>

\* the record of what calls returned and stored
hist == <<maxRet, maxRetOk, ex, exGood, rawMax>>

\* a call starts: it notes the greatest Instants returned so far.  elapsed()
\* is called on an Instant an earlier now() returned; the latest one is taken,
\* of all calls or of those that acquired the lock.
Enter(t) ==
    /\ th[t].pc = "idle"
    /\ \/ th' = [th EXCEPT ![t] = [Idle EXCEPT !.pc = "os_now", !.kind = "now",
                                    !.floorOk = maxRetOk, !.floorAll = maxRet]]
       \/ \E s \in {maxRetOk, maxRet} :
            /\ s.some
            /\ th' = [th EXCEPT ![t] = [Idle EXCEPT !.pc = "os_now",
                                    !.kind = "elapsed", !.self = s,
                                    !.floorOk = maxRetOk, !.floorAll = maxRet]]
    /\ UNCHANGED <<fixed, LAST_NOW, LOCK, clockReads, hist>>

\* the entry points compiled whatever the features
Call_ungated(t) == Enter(t)

\* time.rs:90-93, 175-178: pub fn now / pub fn elapsed, under
\* cfg(feature = "untrusted_time")
Call(t) ==
    /\ untrusted_time
    /\ Enter(t)

\* time.rs:96: let os_now = time::Instant::now();
ReadClock(t) ==
    /\ th[t].pc = "os_now"
    /\ \E x \in Readings :
         th' = [th EXCEPT ![t].os_now = Some(x), ![t].pc = "probe"]
    /\ clockReads' = clockReads \cup {"monotonic"}
    /\ UNCHANGED <<fixed, LAST_NOW, LOCK, hist>>

\* the early return left out
Probe_never(t) ==
    /\ th[t].pc = "probe"
    /\ th' = [th EXCEPT ![t].pc = "lock"]
    /\ UNCHANGED <<fixed, LAST_NOW, LOCK, clockReads, hist>>

\* time.rs:123-125: if actually_monotonic() { return Instant(os_now); }
Probe(t) ==
    /\ th[t].pc = "probe"
    /\ IF actually_monotonic
       THEN th' = [th EXCEPT ![t].now = th[t].os_now, ![t].r = "bypass",
                             ![t].pc = "ret"]
       ELSE th' = [th EXCEPT ![t].pc = "lock"]
    /\ UNCHANGED <<fixed, LAST_NOW, LOCK, clockReads, hist>>

\* SgxThreadMutex::lock succeeding: it waits until no thread holds the lock
SgxThreadMutex_lock(t) ==
    /\ LOCK = "unlocked"
    /\ LOCK' = t

\* SgxThreadMutex::unlock
SgxThreadMutex_unlock == LOCK' = "unlocked"

\* time.rs:130-131: let r = LOCK.lock(); r.is_ok()
LockOk(t) ==
    /\ th[t].pc = "lock"
    /\ SgxThreadMutex_lock(t)
    /\ th' = [th EXCEPT ![t].r = "ok", ![t].w = Some(LAST_NOW), ![t].pc = "max"]
    /\ UNCHANGED <<fixed, LAST_NOW, clockReads, hist>>

\* the failure branch calling LOCK.unlock() as the success branch does
LockErr_unlocks(t) ==
    /\ th[t].pc = "lock"
    /\ SgxThreadMutex_unlock
    /\ th' = [th EXCEPT ![t].r = "err", ![t].now = th[t].os_now, ![t].pc = "ret"]
    /\ UNCHANGED <<fixed, LAST_NOW, clockReads, hist>>

\* time.rs:130-131, 136-138: let r = LOCK.lock(); r is Err, whoever holds the
\* lock: now = os_now
LockErr(t) ==
    /\ th[t].pc = "lock"
    /\ th' = [th EXCEPT ![t].r = "err", ![t].now = th[t].os_now, ![t].pc = "ret"]
    /\ UNCHANGED <<fixed, LAST_NOW, LOCK, clockReads, hist>>

\* the raw reading taken in place of the maximum
Max_raw(t) ==
    /\ th[t].pc = "max"
    /\ th' = [th EXCEPT ![t].now = th[t].os_now, ![t].pc = "store"]
    /\ UNCHANGED <<fixed, LAST_NOW, LOCK, clockReads, hist>>

\* cmp::min in place of cmp::max
Max_min(t) ==
    /\ th[t].pc = "max"
    /\ th' = [th EXCEPT ![t].now = IF TsLe(LAST_NOW, th[t].os_now.v)
                                   THEN Some(LAST_NOW) ELSE th[t].os_now,
                        ![t].pc = "store"]
    /\ UNCHANGED <<fixed, LAST_NOW, LOCK, clockReads, hist>>

\* time.rs:132: let now = cmp::max(LAST_NOW, os_now);
Max(t) ==
    /\ th[t].pc = "max"
    /\ th' = [th EXCEPT ![t].now = Some(cmp_max(LAST_NOW, th[t].os_now.v)),
                        ![t].pc = "store"]
    /\ UNCHANGED <<fixed, LAST_NOW, LOCK, clockReads, hist>>

\* LAST_NOW = v, and the record of the stores: the greatest raw reading
\* stored, and how far the stores have followed ExampleIn / ExampleOut
StoreBody(t, v) ==
    /\ th[t].pc = "store"
    /\ LAST_NOW' = v
    /\ th' = [th EXCEPT ![t].pc = "unlock"]
    /\ IF ex \in 0..(Len(ExampleIn) - 1) /\ th[t].os_now.v = ExampleIn[ex + 1]
       THEN /\ ex' = ex + 1
            /\ exGood' = (exGood /\ th[t].now.v = ExampleOut[ex + 1])
       ELSE /\ ex' = -1
            /\ exGood' = exGood
    /\ rawMax' = OptMax(rawMax, th[t].os_now.v)
    /\ UNCHANGED <<fixed, LOCK, clockReads, maxRet, maxRetOk>>

\* the store left out
Store_skipped(t) == StoreBody(t, LAST_NOW)

\* the raw reading stored in place of now
Store_raw(t) == StoreBody(t, th[t].os_now.v)

\* time.rs:133: LAST_NOW = now;
Store(t) == StoreBody(t, th[t].now.v)

\* time.rs:134: LOCK.unlock();
Unlock(t) ==
    /\ th[t].pc = "unlock"
    /\ SgxThreadMutex_unlock
    /\ th' = [th EXCEPT ![t].pc = "ret"]
    /\ UNCHANGED <<fixed, LAST_NOW, clockReads, hist>>

\* time.rs:177: Instant::now() - *self, which elapsed() returns
ElapsedResult(t) == Instant_sub_instant(th[t].now.v, th[t].self.v)

\* time.rs:139 (and 124): Instant(now) is returned, and the call is over;
\* time.rs:177: elapsed() subtracts *self from it, and a panic ends the thread
Return(t) ==
    /\ th[t].pc = "ret"
    /\ IF th[t].kind = "elapsed" /\ ElapsedResult(t).panic
       THEN th' = [th EXCEPT ![t].pc = "panicked"]
       ELSE th' = [th EXCEPT ![t] = Idle]
    /\ maxRet' = OptMax(maxRet, th[t].now.v)
    /\ maxRetOk' = IF th[t].r = "ok" THEN OptMax(maxRetOk, th[t].now.v)
                                     ELSE maxRetOk
    /\ UNCHANGED <<fixed, LAST_NOW, LOCK, clockReads, ex, exGood, rawMax>>

NowStep(t) ==
    \/ Call(t)
    \/ ReadClock(t)
    \/ Probe(t)
    \/ LockOk(t)
    \/ LockErr(t)
    \/ Max(t)
    \/ Store(t)
    \/ Unlock(t)
    \/ Return(t)

(***************************************************************************)
(* The value operations, applied to recv, arg and delta.                   *)
(***************************************************************************)
TimeNanos == {0, NSEC_PER_SEC - 1}

\* the timestamps the operations are applied to
TimeVals == {Ts(x, n) : x \in -1..MaxSec, n \in TimeNanos}

\* the durations they are applied to
DurVals == {Dur(x, n) : x \in 0..MaxDurSec, n \in {0, 1, NSEC_PER_SEC - 1}}

\* wall-clock readings time::SystemTime::now() may supply, in any order
WallReadings == {Ts(-1, NSEC_PER_SEC - 1), UNIX_EPOCH, Ts(MaxSec, 0)}

Apply(name, result) ==
    /\ op' = name
    /\ res' = result
    /\ wall' = None
    /\ UNCHANGED <<untrusted_time, clockReads, nowVars, recv, arg, delta>>

Do_Instant_duration_since ==
    Apply("Instant::duration_since", Instant_duration_since(recv, arg))

Do_Instant_checked_duration_since ==
    Apply("Instant::checked_duration_since",
          Instant_checked_duration_since(recv, arg))

Do_Instant_saturating_duration_since ==
    Apply("Instant::saturating_duration_since",
          Instant_saturating_duration_since(recv, arg))

Do_Instant_checked_add ==
    Apply("Instant::checked_add", Instant_checked_add(recv, delta))

Do_Instant_checked_sub ==
    Apply("Instant::checked_sub", Instant_checked_sub(recv, delta))

Do_Instant_add == Apply("Instant::add", Instant_add(recv, delta))

Do_Instant_sub == Apply("Instant::sub", Instant_sub(recv, delta))

Do_Instant_sub_instant ==
    Apply("Instant::sub<Instant>", Instant_sub_instant(recv, arg))

Do_SystemTime_duration_since ==
    Apply("SystemTime::duration_since", SystemTime_duration_since(recv, arg))

Do_SystemTime_checked_add ==
    Apply("SystemTime::checked_add", SystemTime_checked_add(recv, delta))

Do_SystemTime_checked_sub ==
    Apply("SystemTime::checked_sub", SystemTime_checked_sub(recv, delta))

Do_SystemTime_add == Apply("SystemTime::add", SystemTime_add(recv, delta))

Do_SystemTime_sub == Apply("SystemTime::sub", SystemTime_sub(recv, delta))

\* time.rs:263-266: SystemTime::now(), present only with the feature
Do_SystemTime_now ==
    /\ untrusted_time
    /\ \E w \in WallReadings :
         /\ wall' = Some(w)
         /\ res' = SystemTime_now(w)
    /\ op' = "SystemTime::now"
    /\ clockReads' = clockReads \cup {"wall"}
    /\ UNCHANGED <<untrusted_time, nowVars, recv, arg, delta>>

\* time.rs:313-316: SystemTime::elapsed(), present only with the feature
Do_SystemTime_elapsed ==
    /\ untrusted_time
    /\ \E w \in WallReadings :
         /\ wall' = Some(w)
         /\ res' = SystemTime_elapsed(recv, w)
    /\ op' = "SystemTime::elapsed"
    /\ clockReads' = clockReads \cup {"wall"}
    /\ UNCHANGED <<untrusted_time, nowVars, recv, arg, delta>>

\* the operations that exist whatever the features
UngatedStep ==
    \/ Do_Instant_duration_since
    \/ Do_Instant_checked_duration_since
    \/ Do_Instant_saturating_duration_since
    \/ Do_Instant_checked_add
    \/ Do_Instant_checked_sub
    \/ Do_Instant_add
    \/ Do_Instant_sub
    \/ Do_Instant_sub_instant
    \/ Do_SystemTime_duration_since
    \/ Do_SystemTime_checked_add
    \/ Do_SystemTime_checked_sub
    \/ Do_SystemTime_add
    \/ Do_SystemTime_sub

TimeStep ==
    \/ UngatedStep
    \/ Do_SystemTime_now
    \/ Do_SystemTime_elapsed

InitNow ==
    /\ actually_monotonic \in BOOLEAN
    /\ LAST_NOW = zero
    /\ LOCK = "unlocked"
    /\ th = [t \in Threads |-> Idle]
    /\ maxRet = None
    /\ maxRetOk = None
    /\ ex = 0
    /\ exGood = TRUE
    /\ rawMax = None

Init ==
    /\ untrusted_time = TRUE
    /\ clockReads = {}
    /\ InitNow
    /\ recv = UNIX_EPOCH
    /\ arg = UNIX_EPOCH
    /\ delta = DurZero
    /\ wall = None
    /\ op = "none"
    /\ res = None

Next == \E t \in Threads : NowStep(t)

Spec == Init /\ [][Next]_vars

(***************************************************************************)
(* SpecTime: the value operations on every pair of TimeVals.               *)
(***************************************************************************)
InitTime ==
    /\ untrusted_time = TRUE
    /\ clockReads = {}
    /\ InitNow
    /\ actually_monotonic = FALSE
    /\ recv \in TimeVals
    /\ arg \in TimeVals
    /\ delta \in DurVals
    /\ wall = None
    /\ op = "none"
    /\ res = None

NextTime == TimeStep

SpecTime == InitTime /\ [][NextTime]_vars

(***************************************************************************)
(* SpecGate: a single-threaded client built with or without the feature.   *)
(***************************************************************************)
InitGate ==
    /\ untrusted_time \in BOOLEAN
    /\ clockReads = {}
    /\ InitNow
    /\ recv = UNIX_EPOCH
    /\ arg \in {UNIX_EPOCH, Ts(MaxSec, 0)}
    /\ delta = Dur(MaxDurSec, 1)
    /\ wall = None
    /\ op = "none"
    /\ res = None

NextGate ==
    \/ NowStep("t1")
    \/ TimeStep

SpecGate == InitGate /\ [][NextGate]_vars

(***************************************************************************)
(* Properties of Instant::now() (Spec).                                    *)
(***************************************************************************)
\* a call of thread t has its return value in th[t].now
Returning(t) == th[t].pc \in {"ret", "panicked"}

C2_CorrectionResult ==
    /\ \A t \in Threads :
          /\ th[t].pc \in {"max", "store"} => th[t].w = Some(LAST_NOW)
          /\ (th[t].r = "ok" /\ th[t].pc \in {"store", "unlock", "ret", "panicked"}) =>
                /\ th[t].now \in {th[t].w, th[t].os_now}
                /\ TsLe(th[t].w.v, th[t].now.v)
                /\ TsLe(th[t].os_now.v, th[t].now.v)
          /\ th[t].pc = "unlock" => LAST_NOW = th[t].now.v
    /\ rawMax.some => LAST_NOW = rawMax.v
    /\ exGood

\* the five readings of the example have been stored, in that order
C2_Witness == ex = Len(ExampleIn) /\ exGood /\ LAST_NOW = Ts(20, 0)

InFlight(t) == th[t].r = "ok" /\ th[t].pc \in {"unlock", "ret"}

C4_WatermarkNeverDecreases ==
    /\ LAST_NOW = zero
    /\ [][TsLe(LAST_NOW, LAST_NOW')]_vars

\* a reading below the watermark has been stored, and the watermark stayed
C4_Witness ==
    \E t \in Threads :
        /\ th[t].pc = "unlock"
        /\ TsLt(th[t].os_now.v, th[t].w.v)
        /\ LAST_NOW = th[t].w.v
        /\ TsLt(zero, LAST_NOW)

\* C5: a call whose LOCK.lock() fails goes straight to its return with its
\* own raw reading, whoever holds the lock, and the step leaves the watermark
\* and the lock as they were.
C5_FailOpen ==
    /\ [](\A t \in Threads :
            th[t].r = "err" => /\ Returning(t)
                               /\ th[t].now = th[t].os_now
                               /\ th[t].w = None
                               /\ LOCK # t)
    /\ [][\A t \in Threads :
            (th[t].pc = "lock" /\ th'[t].r = "err") =>
                /\ th'[t].pc = "ret"
                /\ LAST_NOW' = LAST_NOW
                /\ LOCK' = LOCK]_vars

\* a call failed to lock while another thread held the lock, and returns a
\* reading below the watermark
C5_Witness ==
    \E t \in Threads :
        /\ th[t].r = "err"
        /\ th[t].pc = "ret"
        /\ LOCK \in Threads
        /\ TsLt(th[t].now.v, LAST_NOW)

\* C6: with actually_monotonic() true a call returns its raw reading, no
\* thread ever attempts the lock and the watermark stays at its sentinel;
\* with it false every call goes through LOCK.lock().
C6_MonotonicBypass ==
    /\ actually_monotonic =>
          /\ LAST_NOW = zero
          /\ LOCK = "unlocked"
          /\ \A t \in Threads :
                /\ th[t].pc \notin {"lock", "max", "store", "unlock"}
                /\ Returning(t) => th[t].r = "bypass" /\ th[t].now = th[t].os_now
    /\ ~actually_monotonic =>
          \A t \in Threads : Returning(t) => th[t].r \in {"ok", "err"}

\* on a known-monotonic platform a reading below an Instant returned earlier
\* is being returned as it is
C6_Witness ==
    \E t \in Threads :
        /\ actually_monotonic
        /\ th[t].pc = "ret"
        /\ th[t].floorAll.some
        /\ TsLt(th[t].now.v, th[t].floorAll.v)

(***************************************************************************)
(* Properties of the value operations (SpecTime).                          *)
(***************************************************************************)
\* y is x plus the Duration m: nanoseconds add with a carry into the seconds
IsSum(x, m, y) ==
    /\ m.secs >= 0
    /\ m.nanos \in 0..(NSEC_PER_SEC - 1)
    /\ \E c \in {0, 1} :
         /\ x.tv_nsec + m.nanos = y.tv_nsec + c * NSEC_PER_SEC
         /\ x.tv_sec + m.secs + c = y.tv_sec

\* the durations a difference of two TimeVals can be
DurUniverse ==
    {Dur(x, n) : x \in 0..(MaxSec + 2), n \in {0, 1, NSEC_PER_SEC - 1}}

\* r is what s.duration_since(e) has to be for SystemTimes s and e
WallDifference(r, s, e) ==
    /\ DOMAIN r = {"ok", "v"}
    /\ r.ok <=> TsLe(e, s)
    /\ r.ok => IsSum(e, r.v, s)
    /\ ~r.ok =>
          /\ DOMAIN r.v = {"SystemTimeError"}
          /\ IsSum(s, SystemTimeError_duration(r.v), e)
          /\ SystemTimeError_duration(r.v) # DurZero
          /\ SystemTime_duration_since(e, s) = Ok(SystemTimeError_duration(r.v))
    /\ (s = UNIX_EPOCH /\ e = UNIX_EPOCH) => r = Ok(DurZero)
    /\ (s = UNIX_EPOCH /\ e = Ts(5, 0)) => r = Err([SystemTimeError |-> Dur(5, 0)])

\* C7: s.duration_since(e) is Ok(s - e) iff e <= s and Err(SystemTimeError(e - s))
\* with e - s > 0 otherwise, never a panic; elapsed() is the same applied to
\* the adapter's wall reading as it came.
C7_WallDifference ==
    /\ op = "SystemTime::duration_since" => WallDifference(res, recv, arg)
    /\ op = "SystemTime::elapsed" => WallDifference(res, wall.v, recv)

\* epoch+0s against epoch+5s: Err carrying 5 s
C7_Witness ==
    /\ op = "SystemTime::duration_since"
    /\ recv = UNIX_EPOCH
    /\ arg = Ts(5, 0)
    /\ res = Err([SystemTimeError |-> Dur(5, 0)])

\* m is the one Duration with x + m = y
UniqueSum(x, m, y) ==
    /\ IsSum(x, m, y)
    /\ Instant_checked_add(x, m) = Some(y)
    /\ \A k \in DurUniverse : Instant_checked_add(x, k) = Some(y) => k = m

\* C8: arg <= recv iff recv.duration_since(arg) does not panic iff
\* recv.checked_duration_since(arg) is present, and the Duration is then the
\* one that added to arg gives recv.
C8_OrderMatchesSubtraction ==
    /\ op \in {"Instant::duration_since", "Instant::sub<Instant>"} =>
          /\ ~res.panic <=> TsLe(arg, recv)
          /\ ~res.panic => UniqueSum(arg, res.v, recv)
    /\ op = "Instant::checked_duration_since" =>
          /\ res.some <=> TsLe(arg, recv)
          /\ res.some => UniqueSum(arg, res.v, recv)

\* a difference that borrows from the seconds
C8_Witness ==
    /\ op = "Instant::duration_since"
    /\ TsLt(arg, recv)
    /\ arg.tv_nsec > recv.tv_nsec
    /\ ~res.panic
    /\ res.v.secs > 0

\* what the three differences return when self is before earlier
FailsAsEarlier ==
    /\ op = "Instant::duration_since" =>
          res = Panic("supplied instant is later than self")
    /\ op = "Instant::checked_duration_since" => res = None
    /\ op = "Instant::saturating_duration_since" => res = DurZero

\* C9, as stated: for a > b, a.duration_since(b) panics,
\* a.checked_duration_since(b) is None and a.saturating_duration_since(b) is
\* zero (a is recv, b is arg).
C9_LaterSelfFails == TsLt(arg, recv) => FailsAsEarlier

\* C9, amended: for a < b, a.duration_since(b) panics,
\* a.checked_duration_since(b) is None and a.saturating_duration_since(b) is
\* zero.
C9_EarlierSelfFails == TsLt(recv, arg) => FailsAsEarlier

\* a saturating difference of an earlier self
C9_Witness ==
    /\ op = "Instant::saturating_duration_since"
    /\ TsLt(recv, arg)
    /\ res = DurZero

(***************************************************************************)
(* The trust gate (SpecGate).                                              *)
(***************************************************************************)
\* C10: without the feature no step reads an adapter clock or touches the
\* watermark or the lock, and now()/elapsed() never run; the other operations
\* can be applied with or without it; a clock is read only by a step of
\* now() or elapsed().
C10_TrustGate ==
    /\ [](~untrusted_time =>
            /\ clockReads = {}
            /\ LAST_NOW = zero
            /\ LOCK = "unlocked"
            /\ \A t \in Threads : th[t] = Idle
            /\ wall = None
            /\ op \notin {"SystemTime::now", "SystemTime::elapsed"})
    /\ [](ENABLED UngatedStep)
    /\ [][clockReads' # clockReads =>
            /\ untrusted_time
            /\ \/ op' \in {"SystemTime::now", "SystemTime::elapsed"} /\ wall'.some
               \/ \E t \in Threads : th[t].pc = "os_now" /\ th'[t].pc = "probe"]_vars

\* built without the feature, a wall-clock difference has been taken
C10_Witness ==
    /\ ~untrusted_time
    /\ op = "SystemTime::duration_since"
    /\ res = Err([SystemTimeError |-> Dur(MaxSec, 0)])

====
